---- MODULE Spec2Model ----
(***************************************************************************)
(* The connector runtime of examples-python/gemini-streams-sse-connector/  *)
(* main.py: the accept loop, the worker/handle dispatcher, the dynamic     *)
(* semaphore, the circuit breaker, the adaptive concurrency controller and *)
(* the drain on shutdown.                                                  *)
(*                                                                         *)
(* Tasks are asyncio tasks: a task runs without interruption from one      *)
(* await that can suspend it to the next, so an action is the code between *)
(* two such awaits.  The tuning parameters are scaled down (the source     *)
(* value is given with each), keeping MIN_INFLIGHT < MAX_INFLIGHT_BASE     *)
(* <= MAX_QUEUE as in the source.                                          *)
(*                                                                         *)
(* Spec is the runtime with its concurrent tasks.  SpecCtl is the adaptive *)
(* controller alone, with the source's limits and step.  SpecCall is one   *)
(* downstream call, with its attempts, pauses and timeout.  SpecCodec and  *)
(* SpecClient are the SDK's RuntimeClient (sdk-python/vastar_connector_sdk/ *)
(* runtime_client.py) on one connection and with close and reconnect,      *)
(* SpecAccept is the frame read of the runtime's accept loop, and          *)
(* SpecRetry is retry_with_backoff (utils.py).                             *)
(***************************************************************************)
EXTENDS Integers, Sequences, FiniteSets, TLC

\* ------------------------------------------------------------ parameters
NumTasks == 3              \* task slots the accept loop can have spawned at once
MaxPermits == 3            \* cap on permits in existence (held + available)

MAX_INFLIGHT_BASE == 2     \* main.py:13 (80)
MIN_INFLIGHT == 1          \* main.py:14 (30)
MAX_QUEUE == 2             \* main.py:16 (200)
STEP == 1                  \* main.py:21 (4)
WINDOW == 2                \* main.py:206 (80 samples)
fail_threshold == 2        \* main.py:63 (12)
reset_after == 2           \* main.py:63 (10 s)
LATENCY_THRESHOLD == 10000 \* main.py:20 (ms)

\* the controller's parameters at their source values, for the specification
\* of the controller alone (SpecCtl)
SRC_MAX_INFLIGHT_BASE == 80   \* main.py:13
SRC_MIN_INFLIGHT == 30        \* main.py:14
SRC_STEP == 4                 \* main.py:21
MaxPool == 128                \* SpecCtl: cap on the permits in existence

\* the downstream call's parameters at their source values, for the
\* specification of one call (SpecCall)
MAX_RETRY == 2                \* main.py:19
WAIT_FOR_TIMEOUT == 70        \* main.py:190 (s)
RETRY_PAUSE == 1              \* main.py:163 (s)
MaxElapsed == 73              \* SpecCall: the seconds a call is followed for

\* the frame layout (types.py), a byte scaled down to a digit to the base
\* BYTE_BASE and the cap and the size of a recv to a few bytes
FRAME_LENGTH_SIZE == 4        \* types.py:45
MESSAGE_TYPE_SIZE == 1        \* types.py:46
EXECUTE_REQUEST == 0          \* types.py:52
EXECUTE_RESPONSE == 1         \* types.py:53
SUCCESS == 0                  \* types.py:7
TRANSIENT == 1                \* types.py:8
PERMANENT == 2                \* types.py:9
RATE_LIMITED == 3             \* types.py:10
TIMEOUT == 4                  \* types.py:11
INVALID_REQUEST == 5          \* types.py:12
BYTE_BASE == 4                \* 256
MAX_PAYLOAD_SIZE == 3         \* types.py:47 (10 MiB)
RECV_SIZE == 2                \* runtime_client.py:215 (4096)
MaxFrames == 2                \* frames the runtime sends on one connection
MaxCalls == 2                 \* execute_http calls of one client
MaxRetries == 3               \* SpecRetry: max_retries is -1..MaxRetries
MaxBackoff == 4               \* SpecRetry: the backoffs are 1..MaxBackoff

\* latency samples (ms) a finished request can contribute: a fast one and a slow
\* one; a window holding one of each averages between the two thresholds
Latencies == {1000, 12000}

Tasks == 1..NumTasks

VARIABLES
    pc,              \* task -> where the task is suspended
    response,        \* task -> the response built by handle, not yet written
    path,            \* task -> how handle got to its response (history)
    out,             \* task -> frames written to stdout for the task's request
    permits,         \* semaphore._semaphore: the permits available
    value,           \* semaphore._value: the limit last set by resize
    MAX_INFLIGHT,    \* the global the controller adjusts
    inflight,        \* the queue-depth counter
    recent_latencies,
    breaker,         \* [failures, open_for]: open_for is open_until - time.time(),
                     \* floored at 0: the seconds the breaker stays open
    shutting_down,
    mainpc,          \* main(): "read", "draining" or "stopped"
    run,             \* history: failure() calls since the last success() or trip
    tripLeft,        \* history: seconds left until t + reset_after, t the time of
                     \* the last trip by a failure of the downstream call
    lastDown,        \* history: the last resize lowered the limit
    downHeld,        \* history: holders at that resize that still hold
    callpc,          \* one wait_for(call_gemini): where call_gemini is
    attempts,        \* ... the client.post calls it has issued
    elapsed,         \* ... the seconds since wait_for started
    swallowed,       \* ... line 162 has caught the timeout's CancelledError
    deadlineAt,      \* ... the request's deadlineAtMs, in seconds from the start
    cfg,             \* load_config(): [enabled, base_url] of cfg["simulator"]
    client,          \* a RuntimeClient and its connection (SpecCodec, SpecClient)
    reader,          \* the StreamReader of main's accept loop (SpecAccept)
    retry            \* one call of retry_with_backoff (SpecRetry)

vars == <<pc, response, path, out, permits, value, MAX_INFLIGHT, inflight,
          recent_latencies, breaker, shutting_down, mainpc,
          run, tripLeft, lastDown, downHeld,
          callpc, attempts, elapsed, swallowed, deadlineAt, cfg,
          client, reader, retry>>

\* ------------------------------------------------------------ helpers
Max(a, b) == IF a >= b THEN a ELSE b
Min(a, b) == IF a <= b THEN a ELSE b
Abs(a) == IF a >= 0 THEN a ELSE 0 - a

RECURSIVE SumSeq(_)
SumSeq(s) == IF s = <<>> THEN 0 ELSE Head(s) + SumSeq(Tail(s))

NoResponse == [status |-> 0, body |-> ""]
Overloaded == [status |-> 503, body |-> "Overloaded"]
InternalError == [status |-> 500, body |-> "Internal Error"]
Answer(body) == [status |-> 200, body |-> body]

\* build_response: the frame carries the request id, the payload, done, and
\* the error class, for which line 131 passes ErrorClass.SUCCESS whatever the
\* payload
build_response(request_id, payload) ==
    [request_id |-> request_id, error_class |-> "SUCCESS",
     payload |-> payload, done |-> TRUE]

\* pc values at which the task holds an admission permit (between
\* semaphore.acquire() and semaphore.release() of worker)
HoldingPcs == {"qwait", "rejdrain", "calling", "wwait", "wdrain", "dec"}
Holders == {t \in Tasks : pc[t] \in HoldingPcs}

\* pc values at which the task is counted in inflight (between the increment
\* and the decrement of handle)
CountedPcs == {"calling", "wwait", "wdrain", "dec"}

\* inflight_lock is held across the await of drain() in the Overloaded branch;
\* writer_lock across the await of drain() after the response write
InflightLocked == \E t \in Tasks : pc[t] = "rejdrain"
WriterLocked == \E t \in Tasks : pc[t] = "wdrain"

\* asyncio.Lock.acquire() returns at once only when the lock is free and no
\* task waits for it; otherwise the caller queues behind the waiters
InflightBusy == \E t \in Tasks : pc[t] \in {"rejdrain", "qwait", "dec"}
WriterBusy == \E t \in Tasks : pc[t] \in {"wdrain", "wwait"}

\* ------------------------------------------------------------ DynamicSemaphore
\* resize: value becomes new_value, and a positive delta releases delta permits
ResizePermitsShort(p, old_value, new_value) ==
    IF new_value - old_value > 0 THEN p + (new_value - old_value) - 1 ELSE p

ResizePermits(p, old_value, new_value) ==
    IF new_value - old_value > 0 THEN p + (new_value - old_value) ELSE p

ReleaseTwice(p) == p + 2

\* release(): one permit goes back to the semaphore
Release(p) == p + 1

\* ------------------------------------------------------------ CircuitBreaker
AllowLate(b) == b.open_for <= 1

\* allow(): time.time() >= open_until
Allow(b) == b.open_for <= 0

Success(b) == [b EXCEPT !.failures = 0]

FailureLate(b) ==
    IF b.failures + 1 > fail_threshold
    THEN [failures |-> 0, open_for |-> reset_after]
    ELSE [b EXCEPT !.failures = b.failures + 1]

\* failure(): at the threshold open_until = time.time() + reset_after
Failure(b) ==
    IF b.failures + 1 >= fail_threshold
    THEN [failures |-> 0, open_for |-> reset_after]
    ELSE [b EXCEPT !.failures = b.failures + 1]

\* ------------------------------------------------------------ adaptive concurrency
\* avg > LATENCY_THRESHOLD and avg < LATENCY_THRESHOLD * 0.65, on sum and length
AvgAbove(w) == SumSeq(w) > LATENCY_THRESHOLD * Len(w)
AvgBelow(w) == 100 * SumSeq(w) < 65 * LATENCY_THRESHOLD * Len(w)

ProposedLimitUnclamped(cur, w, lo, hi, step) ==
    IF AvgAbove(w) THEN cur - step
    ELSE IF AvgBelow(w) THEN cur + step
    ELSE cur

ProposedLimitDownOnly(cur, w, lo, hi, step) ==
    IF AvgAbove(w) THEN Max(lo, cur - step) ELSE cur

ProposedLimit(cur, w, lo, hi, step) ==
    IF AvgAbove(w) THEN Max(lo, cur - step)
    ELSE IF AvgBelow(w) THEN Min(hi, cur + step)
    ELSE cur

AdjustToAlways(cur, w, lo, hi, step) ==
    IF w = <<>> THEN cur ELSE ProposedLimit(cur, w, lo, hi, step)

\* the limit after adjust_concurrency: unchanged on an empty window or a
\* change smaller than STEP
AdjustTo(cur, w, lo, hi, step) ==
    IF w = <<>> THEN cur
    ELSE LET new_value == ProposedLimit(cur, w, lo, hi, step)
         IN IF Abs(new_value - cur) >= step THEN new_value ELSE cur

AdjustedLimit(cur, w) == AdjustTo(cur, w, MIN_INFLIGHT, MAX_INFLIGHT_BASE, STEP)

\* recent_latencies.append(latency), dropping the oldest beyond the window
PushLatency(w, x) ==
    LET a == Append(w, x) IN IF Len(a) > WINDOW THEN Tail(a) ELSE a

\* ------------------------------------------------------------ the gate of call_gemini
\* a URL is the sequence of its characters; the literal of line 147
LOOPBACK_PREFIX ==
    <<"h", "t", "t", "p", ":", "/", "/", "1", "2", "7", ".", "0", ".", "0", ".", "1">>

\* str.startswith
StartsWith(u, prefix) ==
    /\ Len(u) >= Len(prefix)
    /\ SubSeq(u, 1, Len(prefix)) = prefix

\* lines 145-153: the call goes on only in simulator mode with a base URL
\* that starts with the loopback literal
Gate(c) == c.enabled /\ StartsWith(c.base_url, LOOPBACK_PREFIX)

\* base URLs a config.yaml can give: the loopback address, with a port, as
\* the first labels of a host name, as the user part before another host,
\* and another host
BaseUrls ==
    {LOOPBACK_PREFIX,
     LOOPBACK_PREFIX \o <<":", "8">>,
     LOOPBACK_PREFIX \o <<".", "e">>,
     LOOPBACK_PREFIX \o <<"@", "e">>,
     <<"h", "t", "t", "p", ":", "/", "/", "e">>}

Configs == [enabled : BOOLEAN, base_url : BaseUrls]

\* ------------------------------------------------------------ frames
\* A byte is a digit to the base BYTE_BASE.  struct.pack(">I", n) and
\* struct.pack("<I", n): the FRAME_LENGTH_SIZE digits of n, the most
\* significant first, or the least significant first
Bytes == 0..(BYTE_BASE - 1)

RECURSIVE Digits(_, _)
Digits(n, k) ==
    IF k = 0 THEN <<>> ELSE Digits(n \div BYTE_BASE, k - 1) \o <<n % BYTE_BASE>>

RECURSIVE Reverse(_)
Reverse(b) == IF b = <<>> THEN <<>> ELSE Reverse(Tail(b)) \o <<Head(b)>>

RECURSIVE Value(_)
Value(b) ==
    IF b = <<>> THEN 0
    ELSE Value(SubSeq(b, 1, Len(b) - 1)) * BYTE_BASE + b[Len(b)]

PackLittle(n) == Reverse(Digits(n, FRAME_LENGTH_SIZE))

Pack(n) == Digits(n, FRAME_LENGTH_SIZE)

UnpackLittle(b) == Value(Reverse(b))

\* struct.unpack(">I", b)
Unpack(b) == Value(b)

SendFrameShort(message_type, payload) ==
    Pack(Len(payload)) \o <<message_type>> \o payload

\* _send_frame: [length:4][type:1][payload:N], length counting type and
\* payload
send_frame(message_type, payload) ==
    Pack(MESSAGE_TYPE_SIZE + Len(payload)) \o <<message_type>> \o payload

\* main.py line 139: the length of the record, least significant byte
\* first, then the record; no type byte
runtime_frame(buf) == PackLittle(Len(buf)) \o buf

\* the bytes of an ExecuteResponse record: its request id and its error
\* class (the other fields play no part here)
Record(request_id, error_class) == <<request_id, error_class>>

\* ------------------------------------------------------------ RuntimeClient
\* __init__: no socket, an empty receive buffer.  wire and eof are the
\* connection's bytes under way to the client and the runtime's close; sent,
\* kinds, frames and old are history: the frames the runtime has sent on the
\* connection (type byte and payload) and how it laid them out, the
\* frame_data values handed to _process_frame, and the number of bytes at
\* the front of the buffer that were received on an earlier connection
ClientInit ==
    [socket |-> "None", receive_buffer |-> <<>>, request_id_seq |-> 0,
     waiting |-> 0, result |-> [kind |-> "none", request_id |-> 0],
     wire |-> <<>>, eof |-> FALSE,
     sent |-> <<>>, kinds |-> {}, frames |-> <<>>, old |-> 0]

Raise(kind, request_id) == [kind |-> kind, request_id |-> request_id]

\* _process_frame: the response, None for another message type, or the
\* exception raised: IndexError on empty frame data (line 248), the
\* record decoder's error on a short record (line 256), ConnectorException
\* on an error class other than SUCCESS (line 268)
process_frame(frame_data) ==
    IF frame_data = <<>> THEN Raise("IndexError", 0)
    ELSE IF frame_data[1] # EXECUTE_RESPONSE THEN Raise("None", 0)
    ELSE LET payload == Tail(frame_data)
         IN IF Len(payload) < 2 THEN Raise("RecordError", 0)
            ELSE IF payload[2] # SUCCESS
                 THEN Raise("ConnectorException", payload[1])
                 ELSE Raise("response", payload[1])

\* lines 224-244: the frames a pass of the inner loop takes out of the
\* buffer, what is left, and how the pass ends: "more" when the buffer holds
\* no complete frame, otherwise the return or the exception
RECURSIVE ProcessFrames(_, _, _)
ProcessFrames(buf, taken, request_id) ==
    IF Len(buf) < FRAME_LENGTH_SIZE
    THEN [buffer |-> buf, taken |-> taken, outcome |-> Raise("more", 0)]
    ELSE LET frame_length == Unpack(SubSeq(buf, 1, FRAME_LENGTH_SIZE))
             total_frame_size == FRAME_LENGTH_SIZE + frame_length
         IN IF frame_length > MAX_PAYLOAD_SIZE
            THEN [buffer |-> buf, taken |-> taken,
                  outcome |-> Raise("ValueError", 0)]
            ELSE IF Len(buf) < total_frame_size
            THEN [buffer |-> buf, taken |-> taken, outcome |-> Raise("more", 0)]
            ELSE LET frame_data == SubSeq(buf, FRAME_LENGTH_SIZE + 1, total_frame_size)
                     rest == SubSeq(buf, total_frame_size + 1, Len(buf))
                     resp == process_frame(frame_data)
                 IN IF resp.kind \in {"IndexError", "RecordError",
                                          "ConnectorException"}
                       \/ (resp.kind = "response"
                             /\ resp.request_id = request_id)
                    THEN [buffer |-> rest, taken |-> Append(taken, frame_data),
                          outcome |-> resp]
                    ELSE ProcessFrames(rest, Append(taken, frame_data), request_id)

\* ------------------------------------------------------------ the accept loop's reader
\* main.py lines 266-269: the bytes still to come on stdin (the stream ends
\* after them), the bytes readexactly has buffered for the read under way,
\* the size the header declared (-1 while the header is read), the frames
\* handed to ExecuteRequest.GetRootAs, and the exception that ended the loop
ReaderInit(stream) ==
    [stream |-> stream, buf |-> <<>>, size |-> -1, frames |-> <<>>,
     error |-> "none"]

\* ------------------------------------------------------------ retry_with_backoff
\* ErrorClass.name (exceptions.py line 33)
ErrorClasses == SUCCESS..INVALID_REQUEST

get_error_class_name(error_class) ==
    <<"SUCCESS", "TRANSIENT", "PERMANENT", "RATE_LIMITED", "TIMEOUT",
      "INVALID_REQUEST">>[error_class + 1]

\* ConnectorException.is_retryable (exceptions.py lines 23-29)
is_retryable(error_class) == error_class \in {TRANSIENT, RATE_LIMITED, TIMEOUT}

\* utils.py lines 169-170
DEFAULT_RETRYABLE == {"TRANSIENT", "RATE_LIMITED", "TIMEOUT"}

\* utils.py lines 146-172: the arguments, the calls of func made, the pause
\* the next retry sleeps, the pauses slept, what the last call of func did
\* ("ok", the error class name of its ConnectorException, or "Exception"), and
\* how retry_with_backoff has ended
RetryInit(max_retries, initial_backoff_ms, max_backoff_ms) ==
    [max_retries |-> max_retries, initial_backoff_ms |-> initial_backoff_ms,
     max_backoff_ms |-> max_backoff_ms, retryable_errors |-> DEFAULT_RETRYABLE,
     calls |-> 0, backoff_ms |-> initial_backoff_ms, pauses |-> <<>>,
     last |-> "none", state |-> "running", error |-> "none"]

\* ------------------------------------------------------------ initial state
\* the runtime when main starts
Started ==
    /\ pc = [t \in Tasks |-> "idle"]
    /\ response = [t \in Tasks |-> NoResponse]
    /\ path = [t \in Tasks |-> "none"]
    /\ out = [t \in Tasks |-> <<>>]
    /\ permits = MAX_INFLIGHT_BASE
    /\ value = MAX_INFLIGHT_BASE
    /\ MAX_INFLIGHT = MAX_INFLIGHT_BASE
    /\ inflight = 0
    /\ recent_latencies = <<>>
    /\ breaker = [failures |-> 0, open_for |-> 0]
    /\ shutting_down = FALSE
    /\ mainpc = "read"
    /\ run = 0
    /\ tripLeft = 0
    /\ lastDown = FALSE
    /\ downHeld = {}
    /\ callpc = "none"
    /\ attempts = 0
    /\ elapsed = 0
    /\ swallowed = FALSE
    /\ deadlineAt = 0
    /\ cfg = [enabled |-> TRUE, base_url |-> LOOPBACK_PREFIX]

Init ==
    /\ Started
    /\ client = ClientInit
    /\ reader = ReaderInit(<<>>)
    /\ retry = RetryInit(0, 0, 0)

taskVars == <<pc, response, path, out>>
semVars == <<permits, value, MAX_INFLIGHT, lastDown, downHeld>>
brkVars == <<breaker, run, tripLeft>>
mainVars == <<shutting_down, mainpc>>
sdkVars == <<client, reader, retry>>
runtimeVars == <<taskVars, semVars, inflight, recent_latencies, brkVars,
                 mainVars, callpc, attempts, elapsed, swallowed, deadlineAt, cfg>>
callVars == <<callpc, attempts, elapsed, swallowed, deadlineAt, cfg, sdkVars>>

Running == mainpc # "stopped"

\* ------------------------------------------------------------ breaker calls
\* breaker.failure(); downstream tells a failure of the call or of the payload
\* decode from the "Circuit open" raise
BreakerFails(downstream) ==
    /\ breaker' = Failure(breaker)
    /\ run' = IF run + 1 >= fail_threshold THEN 0 ELSE run + 1
    /\ tripLeft' = IF downstream /\ run + 1 >= fail_threshold
                   THEN reset_after ELSE tripLeft

\* breaker.success()
BreakerSucceeds ==
    /\ breaker' = Success(breaker)
    /\ run' = 0
    /\ UNCHANGED tripLeft

\* ------------------------------------------------------------ handle
RespondDrop(t, r, p) ==
    /\ path' = [path EXCEPT ![t] = p]
    /\ pc' = [pc EXCEPT ![t] = "idle"]
    /\ UNCHANGED <<response, out>>

\* lines 198-200: with writer_lock free the frame is written and the task
\* suspends in drain(); otherwise it waits for the lock
Respond(t, r, p) ==
    /\ path' = [path EXCEPT ![t] = p]
    /\ IF WriterBusy
       THEN /\ pc' = [pc EXCEPT ![t] = "wwait"]
            /\ response' = [response EXCEPT ![t] = r]
            /\ UNCHANGED out
       ELSE /\ pc' = [pc EXCEPT ![t] = "wdrain"]
            /\ response' = [response EXCEPT ![t] = NoResponse]
            /\ out' = [out EXCEPT ![t] = Append(@, build_response(t, r))]

QueueFullStrict(n) == n > MAX_QUEUE

\* the comparison of line 177
QueueFull(n) == n >= MAX_QUEUE

\* lines 176-196, entered with inflight_lock free: the queue check, the
\* increment, the circuit check, the payload decode and the start of the
\* downstream call
QueueGate(t) ==
    IF QueueFull(inflight)
    THEN /\ out' = [out EXCEPT ![t] = Append(@, build_response(t, Overloaded))]
         /\ pc' = [pc EXCEPT ![t] = "rejdrain"]
         /\ UNCHANGED <<response, path, inflight, brkVars>>
    ELSE /\ inflight' = inflight + 1
         /\ IF ~Allow(breaker)
            THEN /\ BreakerFails(FALSE)
                 /\ Respond(t, InternalError, "circuit_open")
            ELSE \E decoded \in BOOLEAN :
                    IF decoded
                    THEN /\ pc' = [pc EXCEPT ![t] = "calling"]
                         /\ path' = [path EXCEPT ![t] = "called"]
                         /\ UNCHANGED <<response, out, brkVars>>
                    ELSE /\ BreakerFails(TRUE)
                         /\ Respond(t, InternalError, "bad_payload")

\* worker lines 218-220 and handle lines 171-196.  From "acquire" the task
\* gets its permit and enters handle: with shutting_down set handle returns at
\* once and worker's finally gives the permit back; with inflight_lock held
\* the task waits for it ("qwait"), holding its permit.  From "qwait" the
\* task goes on at line 176 once the lock is free
Enter(t) ==
    /\ Running
    /\ pc[t] \in {"acquire", "qwait"}
    /\ IF pc[t] = "qwait"
       THEN /\ ~InflightLocked
            /\ QueueGate(t)
            /\ UNCHANGED permits
       ELSE /\ permits > 0
            /\ IF shutting_down
               THEN /\ pc' = [pc EXCEPT ![t] = "idle"]
                    /\ UNCHANGED <<response, path, out, permits, inflight, brkVars>>
               ELSE /\ permits' = permits - 1
                    /\ IF InflightBusy
                       THEN /\ pc' = [pc EXCEPT ![t] = "qwait"]
                            /\ UNCHANGED <<response, path, out, inflight, brkVars>>
                       ELSE QueueGate(t)
    /\ UNCHANGED <<value, MAX_INFLIGHT, lastDown, downHeld, recent_latencies,
                   mainVars, callVars>>

\* handle lines 179-180 and worker's finally: drain() returns or raises,
\* inflight_lock is released, the rejected request's task ends and releases
\* its permit
RejectReturn(t) ==
    /\ Running
    /\ pc[t] = "rejdrain"
    /\ pc' = [pc EXCEPT ![t] = "idle"]
    /\ out' = [out EXCEPT ![t] = <<>>]
    /\ permits' = Release(permits)
    /\ downHeld' = downHeld \ {t}
    /\ UNCHANGED <<response, path, value, MAX_INFLIGHT, lastDown, inflight,
                   recent_latencies, brkVars, mainVars, callVars>>

\* handle lines 190-196: wait_for(call_gemini) ends.  call_gemini returns the
\* text (line 161), falls off its retry loop and returns None (after line
\* 163), or an exception leaves it (lines 148, 153, or the timeout of 190)
CallOutcomes == {"text", "None", "raise"}

\* lines 191-196 for what wait_for gave: the except branch for an exception,
\* the success branch for any returned value
Finish(t, outcome) ==
    IF outcome = "raise"
    THEN /\ BreakerFails(TRUE)
         /\ Respond(t, InternalError, "called")
    ELSE /\ BreakerSucceeds
         /\ Respond(t, Answer(outcome), "called")

CallReturn(t) ==
    /\ Running
    /\ pc[t] = "calling"
    /\ \E outcome \in CallOutcomes : Finish(t, outcome)
    /\ UNCHANGED <<semVars, inflight, recent_latencies, mainVars, callVars>>

\* handle lines 198-199 after waiting for writer_lock
WriterAcquire(t) ==
    /\ Running
    /\ pc[t] = "wwait"
    /\ ~WriterLocked
    /\ pc' = [pc EXCEPT ![t] = "wdrain"]
    /\ out' = [out EXCEPT ![t] = Append(@, build_response(t, response[t]))]
    /\ response' = [response EXCEPT ![t] = NoResponse]
    /\ UNCHANGED <<path, semVars, inflight, recent_latencies, brkVars, mainVars,
                   callVars>>

\* handle lines 211-212 and worker's finally: the decrement under
\* inflight_lock, the return and semaphore.release(); p is the number of
\* available permits before the release
Leave(t, p, held) ==
    /\ inflight' = inflight - 1
    /\ permits' = Release(p)
    /\ downHeld' = held \ {t}
    /\ pc' = [pc EXCEPT ![t] = "idle"]
    /\ out' = [out EXCEPT ![t] = <<>>]
    /\ path' = [path EXCEPT ![t] = "none"]

\* handle lines 200-212: drain() returns, writer_lock is released, the
\* latency sample is pushed, adjust_concurrency runs (with its resize), and
\* with inflight_lock free the task goes on to the end of worker
AfterWrite(t) ==
    /\ Running
    /\ pc[t] = "wdrain"
    /\ \E latency \in Latencies :
          LET w == PushLatency(recent_latencies, latency)
              new_value == AdjustedLimit(MAX_INFLIGHT, w)
              resized == new_value # MAX_INFLIGHT
              p == IF resized THEN ResizePermits(permits, value, new_value)
                   ELSE permits
              held == IF ~resized THEN downHeld
                      ELSE IF new_value < value THEN Holders ELSE {}
          IN /\ p + Cardinality(Holders) <= MaxPermits
             /\ recent_latencies' = w
             /\ MAX_INFLIGHT' = new_value
             /\ value' = IF resized THEN new_value ELSE value
             /\ lastDown' = IF resized THEN new_value < value ELSE lastDown
             /\ IF InflightBusy
                THEN /\ pc' = [pc EXCEPT ![t] = "dec"]
                     /\ permits' = p
                     /\ downHeld' = held
                     /\ UNCHANGED <<path, out, inflight>>
                ELSE Leave(t, p, held)
    /\ UNCHANGED <<response, brkVars, mainVars, callVars>>

\* handle line 200 and worker's finally: drain() raises (the outbound pipe is
\* broken); writer_lock is released, the exception leaves handle past lines
\* 202-212, worker releases the permit and the task ends with the exception
DrainFails(t) ==
    /\ Running
    /\ pc[t] = "wdrain"
    /\ pc' = [pc EXCEPT ![t] = "idle"]
    /\ out' = [out EXCEPT ![t] = <<>>]
    /\ path' = [path EXCEPT ![t] = "none"]
    /\ permits' = Release(permits)
    /\ downHeld' = downHeld \ {t}
    /\ UNCHANGED <<response, value, MAX_INFLIGHT, lastDown, inflight,
                   recent_latencies, brkVars, mainVars, callVars>>

\* handle line 211 after waiting for inflight_lock
DecWait(t) ==
    /\ Running
    /\ pc[t] = "dec"
    /\ ~InflightLocked
    /\ Leave(t, permits, downHeld)
    /\ UNCHANGED <<response, value, MAX_INFLIGHT, lastDown, recent_latencies,
                   brkVars, mainVars, callVars>>

\* ------------------------------------------------------------ main
\* main lines 261-270: a frame arrives while the loop awaits readexactly; a
\* worker task is created for it and the loop condition is evaluated again
FrameArrives(t) ==
    /\ mainpc = "read"
    /\ pc[t] = "idle"
    /\ pc' = [pc EXCEPT ![t] = "acquire"]
    /\ mainpc' = IF shutting_down THEN "draining" ELSE "read"
    /\ UNCHANGED <<response, path, out, semVars, inflight, recent_latencies,
                   brkVars, shutting_down, callVars>>

\* shutdown(): the handler of SIGINT and SIGTERM
Shutdown ==
    /\ Running
    /\ ~shutting_down
    /\ shutting_down' = TRUE
    /\ UNCHANGED <<taskVars, semVars, inflight, recent_latencies, brkVars, mainpc,
                   callVars>>

DrainedEarly(n) == n <= 1

\* the test of line 276
Drained(n) == n = 0

\* main lines 274-281: the drain loop finds inflight == 0, closes the client
\* and main returns
DrainPoll ==
    /\ mainpc = "draining"
    /\ ~InflightBusy
    /\ Drained(inflight)
    /\ mainpc' = "stopped"
    /\ UNCHANGED <<taskVars, semVars, inflight, recent_latencies, brkVars,
                   shutting_down, callVars>>

\* a second of time.time() passes while the breaker is open
Tick ==
    /\ Running
    /\ breaker.open_for > 0 \/ tripLeft > 0
    /\ breaker' = [breaker EXCEPT !.open_for = Max(0, @ - 1)]
    /\ tripLeft' = Max(0, tripLeft - 1)
    /\ UNCHANGED <<taskVars, semVars, inflight, recent_latencies, run, mainVars,
                   callVars>>

Next ==
    \/ \E t \in Tasks : FrameArrives(t)
    \/ \E t \in Tasks : Enter(t)
    \/ \E t \in Tasks : RejectReturn(t)
    \/ \E t \in Tasks : CallReturn(t)
    \/ \E t \in Tasks : WriterAcquire(t)
    \/ \E t \in Tasks : AfterWrite(t)
    \/ \E t \in Tasks : DrainFails(t)
    \/ \E t \in Tasks : DecWait(t)
    \/ Shutdown
    \/ DrainPoll
    \/ Tick

Spec == Init /\ [][Next]_vars

\* The event loop runs every task that can run, the streams' drains and the
\* downstream calls come to an end, and time passes.  Nothing makes the
\* orchestrator send a frame or a signal arrive.
Fairness ==
    /\ \A t \in Tasks :
          /\ WF_vars(Enter(t))
          /\ WF_vars(RejectReturn(t))
          /\ WF_vars(CallReturn(t))
          /\ WF_vars(WriterAcquire(t))
          /\ WF_vars(AfterWrite(t) \/ DrainFails(t))
          /\ WF_vars(DecWait(t))
    /\ WF_vars(DrainPoll)
    /\ WF_vars(Tick)

FairSpec == Spec /\ Fairness

\* ------------------------------------------------------------ the controller alone
\* The adaptive controller with the source's limits and step: requests run
\* through handle one after the other, so that all permits are available
\* between two of them, and each contributes its latency sample (lines
\* 202-209, with adjust_concurrency and resize).
Samples == Latencies \cup {LATENCY_THRESHOLD}

InitCtl ==
    /\ pc = [t \in Tasks |-> "idle"]
    /\ response = [t \in Tasks |-> NoResponse]
    /\ path = [t \in Tasks |-> "none"]
    /\ out = [t \in Tasks |-> <<>>]
    /\ permits = SRC_MAX_INFLIGHT_BASE
    /\ value = SRC_MAX_INFLIGHT_BASE
    /\ MAX_INFLIGHT = SRC_MAX_INFLIGHT_BASE
    /\ inflight = 0
    /\ recent_latencies = <<>>
    /\ breaker = [failures |-> 0, open_for |-> 0]
    /\ shutting_down = FALSE
    /\ mainpc = "read"
    /\ run = 0
    /\ tripLeft = 0
    /\ lastDown = FALSE
    /\ downHeld = {}
    /\ callpc = "none"
    /\ attempts = 0
    /\ elapsed = 0
    /\ swallowed = FALSE
    /\ deadlineAt = 0
    /\ cfg = [enabled |-> TRUE, base_url |-> LOOPBACK_PREFIX]
    /\ client = ClientInit
    /\ reader = ReaderInit(<<>>)
    /\ retry = RetryInit(0, 0, 0)

Completed ==
    /\ \E latency \in Samples :
          LET w == PushLatency(recent_latencies, latency)
              new_value == AdjustTo(MAX_INFLIGHT, w, SRC_MIN_INFLIGHT,
                                    SRC_MAX_INFLIGHT_BASE, SRC_STEP)
              resized == new_value # MAX_INFLIGHT
              p == IF resized THEN ResizePermits(permits, value, new_value)
                   ELSE permits
          IN /\ p <= MaxPool
             /\ recent_latencies' = w
             /\ MAX_INFLIGHT' = new_value
             /\ value' = IF resized THEN new_value ELSE value
             /\ permits' = p
             /\ lastDown' = IF resized THEN new_value < value ELSE lastDown
    /\ UNCHANGED <<taskVars, downHeld, inflight, brkVars, mainVars, callVars>>

NextCtl == Completed

SpecCtl == InitCtl /\ [][NextCtl]_vars

\* ------------------------------------------------------------ properties
TotalPermits == permits + Cardinality(Holders)
Waiting == {t \in Tasks : pc[t] = "acquire"}
Counted == {t \in Tasks : pc[t] \in CountedPcs}

\* t's task ends in this step
Ends(t) == pc[t] # "idle" /\ pc'[t] = "idle"
\* t passes the queue check of line 177 in this step
QueueChecked(t) ==
    /\ pc[t] \in {"acquire", "qwait"}
    /\ pc'[t] \in {"rejdrain", "calling", "wwait", "wdrain"}
\* t passes the circuit check of line 184 in this step
CircuitChecked(t) ==
    /\ pc[t] \in {"acquire", "qwait"}
    /\ pc'[t] \in {"calling", "wwait", "wdrain"}
\* the response t's handle builds in this step, NoResponse if it builds none
Built(t) ==
    IF pc[t] \in {"acquire", "qwait", "calling"} /\ pc'[t] = "wwait" THEN response'[t]
    ELSE IF pc[t] \in {"acquire", "qwait", "calling"} /\ pc'[t] = "wdrain"
         THEN out'[t][Len(out'[t])].payload
    ELSE NoResponse

\* C1: every dispatched request gets exactly one response frame: a task that
\* ends has written one frame, never none and never two, whatever the outcome
\* and whether or not a termination signal arrived meanwhile.
C1_ExactlyOneResponse ==
    [][\A t \in Tasks : Ends(t) => Len(out[t]) = 1]_vars

\* C2: at every instant 0 <= inflightCount <= currentLimit <= MAX_INFLIGHT_BASE,
\* inflightCount the tasks holding a permit, currentLimit the limit last set
\* by resize.
C2_LimitInvariant ==
    /\ 0 <= Cardinality(Holders)
    /\ Cardinality(Holders) <= value
    /\ value <= MAX_INFLIGHT_BASE

\* C3: the tasks holding a permit, and so the tasks inside the downstream
\* call, never number more than MAX_INFLIGHT_BASE.
C3_HoldersBounded ==
    /\ Cardinality(Holders) <= MAX_INFLIGHT_BASE
    /\ Cardinality({t \in Tasks : pc[t] = "calling"}) <= MAX_INFLIGHT_BASE

\* C4: after a resize that lowers the limit, once the permits held at that
\* resize have been released and no other resize has happened, at most
\* newLimit tasks hold a permit at the same time.
C4_ShrinksToNewLimit ==
    (lastDown /\ downHeld = {}) => Cardinality(Holders) <= value

\* C5: a resize that raises the limit adds exactly newLimit - currentLimit
\* permits to the pool in the same step, and a resize, up or down, takes no
\* permit from a task that holds one (the resizing task gives its own permit
\* back when its handle ends right after the resize).
C5_ResizeGrantsDelta ==
    [][value' # value =>
         \E t \in Tasks :
            /\ pc[t] = "wdrain"
            /\ LET delta == IF value' > value THEN value' - value ELSE 0
                   left == IF pc'[t] = "idle" THEN 1 ELSE 0
               IN /\ permits' = permits + delta + left
                  /\ Holders' = IF left = 1 THEN Holders \ {t} ELSE Holders]_vars

\* a raise has put an extra permit in the pool and a task that was waiting in
\* acquire() can take it
C5_Witness ==
    /\ value = MAX_INFLIGHT_BASE
    /\ TotalPermits > MAX_INFLIGHT_BASE
    /\ ~lastDown
    /\ permits > 0
    /\ Waiting # {}

\* C6: the queue-depth increment comes before the permit: a task waiting for
\* a permit is already counted in inflight, and a request rejected as
\* Overloaded holds no permit.
C6_QueueBeforePermit ==
    /\ inflight >= Cardinality(Waiting)
    /\ \A t \in Tasks : pc[t] = "rejdrain" => t \notin Holders

\* C7: a request whose queue check finds MAX_QUEUE requests in flight is
\* answered with the Overloaded (503) frame, changes neither inflight nor the
\* breaker nor the latency window, and never gets to the downstream call.
C7_OverloadRejected ==
    [][\A t \in Tasks :
         /\ (QueueChecked(t) /\ inflight >= MAX_QUEUE) =>
               /\ pc'[t] = "rejdrain"
               /\ out'[t] = <<build_response(t, Overloaded)>>
               /\ path'[t] # "called"
               /\ UNCHANGED <<inflight, breaker, recent_latencies>>
         /\ pc[t] = "rejdrain" => pc'[t] \in {"rejdrain", "idle"}]_vars

C7_Witness ==
    \E t \in Tasks :
       /\ pc[t] = "rejdrain"
       /\ out[t] = <<build_response(t, Overloaded)>>
       /\ path[t] = "none"
       /\ inflight = MAX_QUEUE

\* C8: 0 <= inflight <= MAX_QUEUE in every reachable state.
C8_QueueDepthBounded == 0 <= inflight /\ inflight <= MAX_QUEUE

\* the counter is at its cap while a further request is being turned away
C8_Witness ==
    /\ inflight = MAX_QUEUE
    /\ Cardinality(Counted) = MAX_QUEUE
    /\ InflightLocked

\* C9: the breaker opens exactly when fail_threshold failure() calls have
\* come with no success() between them (run counts them): the call that
\* completes such a run opens the breaker for reset_after, so that allow()
\* is false, and failures to 0; a failure() earlier in a run only counts;
\* success() restarts the count; nothing else touches the breaker; and
\* failures stays in 0..fail_threshold-1.
C9_BreakerTrips ==
    [][/\ breaker.failures = run
       /\ breaker'.failures = run'
       /\ breaker'.failures \in 0..(fail_threshold - 1)
       /\ \A t \in Tasks :
            LET r == Built(t)
            IN /\ r = InternalError =>
                    IF run + 1 = fail_threshold
                    THEN /\ breaker'.open_for = reset_after
                         /\ ~Allow(breaker')
                         /\ breaker'.failures = 0
                    ELSE /\ breaker'.open_for = breaker.open_for
                         /\ breaker'.failures = run + 1
               /\ r.status = 200 =>
                    /\ breaker'.failures = 0
                    /\ breaker'.open_for = breaker.open_for
       /\ (\A u \in Tasks : Built(u) = NoResponse) =>
            /\ breaker'.failures = breaker.failures
            /\ breaker'.open_for <= breaker.open_for]_vars

\* the breaker has just been tripped
C9_Witness ==
    /\ ~Allow(breaker)
    /\ breaker.open_for = reset_after
    /\ breaker.failures = 0
    /\ run = 0

\* C10: after a trip at time t by failures of the downstream call, a request
\* whose circuit check comes before t + reset_after (tripLeft > 0) is
\* fast-failed and one whose check comes at or after it is let through,
\* however many requests were fast-failed meanwhile.
C10_ClosesAfterReset ==
    [][\A t \in Tasks :
         CircuitChecked(t) => (path'[t] = "circuit_open" <=> tripLeft > 0)]_vars

\* C11: a request's circuit check fails exactly when the breaker is still
\* open (now < open_until, open_for > 0); such a request gets the failure
\* response at once and never reaches the downstream call.
C11_FastFail ==
    [][\A t \in Tasks :
         /\ CircuitChecked(t) =>
               /\ (path'[t] = "circuit_open") <=> (breaker.open_for > 0)
               /\ path'[t] = "circuit_open" =>
                     /\ pc'[t] # "calling"
                     /\ Built(t) = InternalError
         /\ path[t] = "circuit_open" =>
               /\ pc'[t] # "calling"
               /\ path'[t] \in {"circuit_open", "none"}]_vars

\* a fast-failed request has its failure frame written while the breaker is
\* still open
C11_Witness ==
    \E t \in Tasks :
       /\ path[t] = "circuit_open"
       /\ pc[t] = "wdrain"
       /\ out[t] = <<build_response(t, InternalError)>>
       /\ ~Allow(breaker)

\* C13: the error class of every frame written tells the outcome: SUCCESS
\* exactly for a frame that carries a downstream answer (status 200), another
\* class for the Overloaded, the circuit-open and every other failure frame.
C13_ErrorClassReflectsOutcome ==
    \A t \in Tasks : \A i \in 1..Len(out[t]) :
       (out[t][i].error_class = "SUCCESS") <=> (out[t][i].payload.status = 200)

\* C16: MIN_INFLIGHT <= MAX_INFLIGHT <= MAX_INFLIGHT_BASE in every reachable
\* state, whatever the samples and however the tasks' adjust_concurrency
\* calls interleave.
C16_LimitInRange ==
    /\ MIN_INFLIGHT <= MAX_INFLIGHT
    /\ MAX_INFLIGHT <= MAX_INFLIGHT_BASE

\* the limit is at the floor and the window still averages above the
\* threshold, so the next adjustment proposes to go below
C16_Witness ==
    /\ MAX_INFLIGHT = MIN_INFLIGHT
    /\ value = MIN_INFLIGHT
    /\ Len(recent_latencies) = WINDOW
    /\ AvgAbove(recent_latencies)
    /\ \E t \in Tasks : pc[t] = "wdrain"

\* ------------------------------------------------------------ one downstream call
\* One request, admitted and past the circuit check, from the wait_for of
\* line 190 to its response: call_gemini's gate, its attempts and pauses,
\* the 70 s timeout of wait_for, and lines 191-199.  Time advances in steps
\* of RETRY_PAUSE; an attempt takes any number of them.
Caller == 1

\* the request's deadlineAtMs, in seconds after the start of the call
Deadlines == {10, 90}

InitCall ==
    /\ pc = [t \in Tasks |-> IF t = Caller THEN "calling" ELSE "idle"]
    /\ response = [t \in Tasks |-> NoResponse]
    /\ path = [t \in Tasks |-> IF t = Caller THEN "called" ELSE "none"]
    /\ out = [t \in Tasks |-> <<>>]
    /\ permits = MAX_INFLIGHT_BASE - 1
    /\ value = MAX_INFLIGHT_BASE
    /\ MAX_INFLIGHT = MAX_INFLIGHT_BASE
    /\ inflight = 1
    /\ recent_latencies = <<>>
    /\ breaker = [failures |-> 0, open_for |-> 0]
    /\ shutting_down = FALSE
    /\ mainpc = "read"
    /\ run = 0
    /\ tripLeft = 0
    /\ lastDown = FALSE
    /\ downHeld = {}
    /\ callpc = "start"
    /\ attempts = 0
    /\ elapsed = 0
    /\ swallowed = FALSE
    /\ deadlineAt \in Deadlines
    /\ cfg \in Configs
    /\ client = ClientInit
    /\ reader = ReaderInit(<<>>)
    /\ retry = RetryInit(0, 0, 0)

callFrame == <<semVars, inflight, recent_latencies, mainVars, deadlineAt, cfg,
               sdkVars>>

MoreAttemptsLoose(n) == n <= MAX_RETRY + 1

\* line 157: the loop runs MAX_RETRY + 1 times
MoreAttempts(n) == n < MAX_RETRY + 1

\* what wait_for gives when call_gemini ends with result r: r itself; after
\* the timeout's cancellation was caught at line 162, r or TimeoutError,
\* depending on the asyncio version
Outcomes(r) == IF swallowed THEN {r, "raise"} ELSE {r}

\* wait_for's call ends: lines 191-199
CallEnds(results) ==
    /\ callpc' = "ended"
    /\ \E outcome \in results : Finish(Caller, outcome)

\* lines 145-159: the gate raises (lines 148, 153) or the first attempt is
\* issued
CallStart ==
    /\ callpc = "start"
    /\ IF Gate(cfg)
       THEN /\ callpc' = "post"
            /\ attempts' = 1
            /\ UNCHANGED <<taskVars, brkVars>>
       ELSE /\ CallEnds({"raise"})
            /\ UNCHANGED attempts
    /\ UNCHANGED <<elapsed, swallowed, callFrame>>

\* lines 159-163: the attempt fails (network error, status, unusable body)
\* and the except branch starts its pause
PostFails ==
    /\ callpc = "post"
    /\ callpc' = "sleep"
    /\ UNCHANGED <<attempts, elapsed, swallowed, taskVars, brkVars, callFrame>>

\* lines 159-161: the attempt succeeds and call_gemini returns the text
PostReturns ==
    /\ callpc = "post"
    /\ CallEnds(Outcomes("text"))
    /\ UNCHANGED <<attempts, elapsed, swallowed, callFrame>>

\* RETRY_PAUSE seconds pass.  When they complete the timeout, wait_for
\* cancels call_gemini: in the pause of line 163 the CancelledError leaves
\* call_gemini and wait_for raises TimeoutError; in the post of line 159 the
\* bare except of line 162 catches it and the pause starts.  Otherwise a
\* pause is over, and the loop issues the next attempt or ends, call_gemini
\* returning None; an attempt goes on.
SecondPasses ==
    /\ callpc \in {"post", "sleep"}
    /\ elapsed < MaxElapsed
    /\ elapsed' = elapsed + RETRY_PAUSE
    /\ IF ~swallowed /\ elapsed + RETRY_PAUSE = WAIT_FOR_TIMEOUT
       THEN IF callpc = "sleep"
            THEN /\ CallEnds({"raise"})
                 /\ UNCHANGED <<attempts, swallowed>>
            ELSE /\ swallowed' = TRUE
                 /\ callpc' = "sleep"
                 /\ UNCHANGED <<attempts, taskVars, brkVars>>
       ELSE IF callpc = "sleep"
            THEN IF MoreAttempts(attempts)
                 THEN /\ attempts' = attempts + 1
                      /\ callpc' = "post"
                      /\ UNCHANGED <<swallowed, taskVars, brkVars>>
                 ELSE /\ CallEnds(Outcomes("None"))
                      /\ UNCHANGED <<attempts, swallowed>>
            ELSE UNCHANGED <<callpc, attempts, swallowed, taskVars, brkVars>>
    /\ UNCHANGED callFrame

NextCall ==
    \/ CallStart
    \/ PostFails
    \/ PostReturns
    \/ SecondPasses

SpecCall == InitCall /\ [][NextCall]_vars

\* the window average is above LATENCY_THRESHOLD, below 0.65 times it, or
\* between the two (the bounds included)
Above(w) == w # <<>> /\ SumSeq(w) > LATENCY_THRESHOLD * Len(w)
Below(w) == w # <<>> /\ 100 * SumSeq(w) < 65 * LATENCY_THRESHOLD * Len(w)
Between(w) == w # <<>> /\ ~Above(w) /\ ~Below(w)

\* C14: while the window average stays above LATENCY_THRESHOLD, each
\* adjustment takes the limit down by STEP (by what is left to MIN_INFLIGHT
\* if that is less) until the limit is MIN_INFLIGHT, where it stays.
C14_DecreasesToMin ==
    [][((recent_latencies = <<>> \/ Above(recent_latencies))
          /\ Above(recent_latencies')) =>
         IF MAX_INFLIGHT = SRC_MIN_INFLIGHT
         THEN MAX_INFLIGHT' = SRC_MIN_INFLIGHT
         ELSE \/ MAX_INFLIGHT' = MAX_INFLIGHT - SRC_STEP
              \/ MAX_INFLIGHT' < MAX_INFLIGHT /\ MAX_INFLIGHT' = SRC_MIN_INFLIGHT]_vars

\* C15: while the window average stays below 0.65 x LATENCY_THRESHOLD, each
\* adjustment takes the limit up by exactly STEP until the limit is
\* MAX_INFLIGHT_BASE, where it stays; from every limit the controller reaches.
C15_IncreasesToBase ==
    [][((recent_latencies = <<>> \/ Below(recent_latencies))
          /\ Below(recent_latencies')) =>
         IF MAX_INFLIGHT = SRC_MAX_INFLIGHT_BASE
         THEN MAX_INFLIGHT' = SRC_MAX_INFLIGHT_BASE
         ELSE MAX_INFLIGHT' = MAX_INFLIGHT + SRC_STEP]_vars

\* the limit has just been raised from the lowest limit the controller
\* reaches, on a window that averages below
C15_Witness ==
    /\ MAX_INFLIGHT - SRC_STEP < SRC_MIN_INFLIGHT + SRC_STEP
    /\ value = MAX_INFLIGHT
    /\ ~lastDown
    /\ permits > SRC_MAX_INFLIGHT_BASE
    /\ Below(recent_latencies)

\* C17: a run of the controller changes the limit by +STEP, by -STEP or not
\* at all, the pool's limit follows the limit and the pool gains exactly the
\* permits of a raise; with the window average between 0.65 x
\* LATENCY_THRESHOLD and LATENCY_THRESHOLD (both included) limit and pool stay.
C17_StepOrNothing ==
    [][LET d == MAX_INFLIGHT' - MAX_INFLIGHT
       IN /\ d \in {SRC_STEP, 0 - SRC_STEP, 0}
          /\ value' = MAX_INFLIGHT'
          /\ permits' = permits + (IF d > 0 THEN d ELSE 0)
          /\ Between(recent_latencies') =>
                /\ d = 0
                /\ UNCHANGED <<value, permits>>]_vars

\* the limit is less than STEP above MIN_INFLIGHT with a full window that
\* averages above the threshold: the proposed change is smaller than STEP
C17_Witness ==
    /\ MAX_INFLIGHT > SRC_MIN_INFLIGHT
    /\ MAX_INFLIGHT - SRC_STEP < SRC_MIN_INFLIGHT
    /\ value = MAX_INFLIGHT
    /\ lastDown
    /\ Len(recent_latencies) = WINDOW
    /\ Above(recent_latencies)

\* C12: when the last of the MAX_RETRY + 1 attempts has failed and the call
\* ends, the dispatcher calls breaker.failure(), not success(), and builds the
\* failure response.
C12_ExhaustedIsFailure ==
    [][(callpc = "sleep" /\ attempts = MAX_RETRY + 1 /\ callpc' = "ended") =>
         /\ breaker' = Failure(breaker)
         /\ Built(Caller) = InternalError]_vars

\* C18: one call issues at most MAX_RETRY + 1 attempts; a new attempt is the
\* first one or follows a failed attempt after a pause of RETRY_PAUSE; the
\* attempt that succeeds ends the call, and an ended call issues nothing.
C18_BoundedAttempts ==
    [][/\ attempts' <= MAX_RETRY + 1
       /\ attempts' # attempts =>
             /\ attempts' = attempts + 1
             /\ callpc' = "post"
             /\ \/ callpc = "start"
                \/ callpc = "sleep" /\ elapsed' = elapsed + RETRY_PAUSE
       /\ (callpc = "post" /\ callpc' # "post") => callpc' \in {"sleep", "ended"}
       /\ callpc = "ended" => UNCHANGED <<callpc, attempts>>]_vars

\* three attempts have failed at once, each followed by its pause, and the
\* call is over
C18_Witness ==
    /\ callpc = "ended"
    /\ attempts = MAX_RETRY + 1
    /\ elapsed = (MAX_RETRY + 1) * RETRY_PAUSE

\* C19: once WAIT_FOR_TIMEOUT seconds have passed the call is over, with the
\* failure response, and no attempt or pause of it is under way.
C19_OverallTimeout ==
    elapsed >= WAIT_FOR_TIMEOUT =>
       /\ callpc = "ended"
       /\ out[Caller] = <<build_response(Caller, InternalError)>>

\* C20: once the request's own deadline has passed its call is over, no
\* retry of it is under way, and its response frame is a TIMEOUT frame.
C20_RequestDeadline ==
    elapsed >= deadlineAt =>
       /\ callpc = "ended"
       /\ Len(out[Caller]) = 1
       /\ out[Caller][1].error_class = "TIMEOUT"

\* the host an HTTP client connects to for URL u: what follows the scheme up
\* to the first "/", without a user part before "@" and a port after ":"
RECURSIVE UpTo(_, _)
UpTo(u, stops) ==
    IF u = <<>> \/ Head(u) \in stops THEN <<>>
    ELSE <<Head(u)>> \o UpTo(Tail(u), stops)
RECURSIVE AfterAt(_)
AfterAt(u) ==
    IF \E i \in 1..Len(u) : u[i] = "@"
    THEN AfterAt(SubSeq(u, (CHOOSE i \in 1..Len(u) : u[i] = "@") + 1, Len(u)))
    ELSE u
Scheme == <<"h", "t", "t", "p", ":", "/", "/">>
Host(u) == UpTo(AfterAt(UpTo(SubSeq(u, Len(Scheme) + 1, Len(u)), {"/"})), {":"})
Loopback == <<"1", "2", "7", ".", "0", ".", "0", ".", "1">>

\* C21: an HTTP request is issued only in simulator mode and only to the
\* loopback host; with any other configuration the call raises before its
\* first attempt and the request gets the failure response.
C21_LoopbackOnly ==
    /\ attempts > 0 => (cfg.enabled /\ Host(cfg.base_url) = Loopback)
    /\ (callpc = "ended" /\ attempts = 0) =>
          out[Caller] = <<build_response(Caller, InternalError)>>

\* C22: a request past the queue check always gets its response frame: a
\* failure of the circuit check, of the decode or of the call is turned into
\* the failure response within the task's own step, leaving main and the
\* other tasks where they are; the task goes on to the write, ends only with
\* its frame written, and main does not stop while such a task is left.
C22_AlwaysResponds ==
    [][\A t \in Tasks :
         /\ Built(t) = InternalError =>
               /\ pc'[t] \in {"wwait", "wdrain"}
               /\ mainpc' = mainpc
               /\ \A u \in Tasks \ {t} : pc'[u] = pc[u]
         /\ pc[t] = "calling" => pc'[t] \in {"calling", "wwait", "wdrain"}
         /\ pc[t] = "wwait" => pc'[t] \in {"wwait", "wdrain"}
         /\ (pc[t] \in CountedPcs /\ pc'[t] \notin CountedPcs) =>
               /\ pc'[t] = "idle"
               /\ Len(out[t]) = 1
         /\ mainpc' = "stopped" => pc'[t] \notin CountedPcs]_vars

\* a payload that does not decode has been answered with the failure frame
\* while another request is in its downstream call
C22_Witness ==
    \E t, u \in Tasks :
       /\ pc[t] = "wdrain"
       /\ path[t] = "bad_payload"
       /\ out[t] = <<build_response(t, InternalError)>>
       /\ pc[u] = "calling"

\* C23: permits are conserved: held plus available permits change only by
\* what a resize adds, so every task that took a permit gives back exactly
\* one when its handling ends, however it ends, and no task gives back a
\* permit it does not hold.
C23_PermitReleasedOnce ==
    [][TotalPermits' =
         TotalPermits + (IF value' > value THEN value' - value ELSE 0)]_vars

\* a request's handling has ended with a failed write (its increment of
\* inflight is still there) and all permits are back
C23_Witness ==
    /\ Holders = {}
    /\ permits = MAX_INFLIGHT_BASE
    /\ value = MAX_INFLIGHT_BASE
    /\ inflight > 0

\* C24: every increment of inflight is matched by a decrement when the
\* request's handling ends, also when the write of the response fails: the
\* counter is the number of requests being handled, and 0 with none.
C24_CounterMatchesHandled == inflight = Cardinality(Counted)

\* C25: at most one task is between the start of its frame write and the end
\* of its drain, the Overloaded rejection included.
C25_WritesSerialized ==
    Cardinality({t \in Tasks : pc[t] \in {"rejdrain", "wdrain"}}) <= 1

\* C26: no task that awaits stream or network I/O (a drain or the downstream
\* call) holds inflight_lock, latency_lock or the semaphore's resize lock;
\* of these only inflight_lock is ever held at an await, in "rejdrain".
C26_NoIoUnderStateLock ==
    \A t \in Tasks :
       pc[t] \in {"rejdrain", "calling", "wdrain"} =>
          ~(InflightLocked /\ pc[t] = "rejdrain")

\* C27: the process has stopped only after the signal, with inflight 0 and
\* no task in or past the queue check, so with no downstream call under way.
C27_StopsDrained ==
    mainpc = "stopped" =>
       /\ shutting_down
       /\ inflight = 0
       /\ \A t \in Tasks : pc[t] \in {"idle", "acquire"}

\* the process has stopped after requests were handled
C27_Witness ==
    /\ mainpc = "stopped"
    /\ inflight = 0
    /\ Len(recent_latencies) = WINDOW

\* C28: after the signal the accept loop reads no frame and spawns no task.
C28_NoSpawnAfterSignal ==
    [][shutting_down =>
         \A t \in Tasks : ~(pc[t] = "idle" /\ pc'[t] = "acquire")]_vars

\* C29: a task spawned before the signal (main has read no frame since) that
\* still waits for its permit when the signal comes goes on into handling
\* when it gets the permit; it does not end without a response.
C29_SpawnedTasksComplete ==
    [][\A t \in Tasks :
         (shutting_down /\ mainpc = "read" /\ pc[t] = "acquire"
            /\ pc'[t] # "acquire") => pc'[t] # "idle"]_vars

\* C30: after the signal the process eventually stops, whether or not
\* another frame arrives.
C30_EventuallyStopped == shutting_down ~> (mainpc = "stopped")

\* ------------------------------------------------------------ the SDK client
\* The frames the runtime may put on the connection, as type byte and
\* payload: a request-typed frame, a response with a short record, the
\* responses for the request ids with SUCCESS and with TRANSIENT, all laid
\* out as _send_frame lays them out; the SUCCESS responses laid out as
\* main.py's build_response lays them out; and a frame of _send_frame whose
\* payload has MAX_PAYLOAD_SIZE bytes
RequestIds == 1..MaxCalls

ResponseFrames == {<<EXECUTE_RESPONSE>> \o Record(r, e) : r \in RequestIds, e \in {SUCCESS, TRANSIENT}}

PeerFrames ==
    ({"sdk"} \X ({<<EXECUTE_REQUEST>>, <<EXECUTE_RESPONSE, 1>>} \cup ResponseFrames))
    \cup ({"runtime"} \X {<<EXECUTE_RESPONSE>> \o Record(r, SUCCESS) : r \in RequestIds})
    \cup ({"large"} \X {<<EXECUTE_RESPONSE>> \o [i \in 1..MAX_PAYLOAD_SIZE |-> 0]})

Layout(kind, frame) ==
    IF kind = "runtime" THEN runtime_frame(Tail(frame))
    ELSE send_frame(Head(frame), Tail(frame))

\* the runtime writes a frame
PeerSends(kind, frame) ==
    /\ client.socket = "open"
    /\ ~client.eof
    /\ Len(client.sent) < MaxFrames
    /\ frame \in ResponseFrames => frame[2] <= client.request_id_seq
    /\ client' = [client EXCEPT !.wire = @ \o Layout(kind, frame),
                                !.sent = Append(@, frame),
                                !.kinds = @ \cup {kind}]
    /\ UNCHANGED <<runtimeVars, reader, retry>>

\* the connection ends on the runtime's side; of the bytes under way the
\* client still gets the first k
PeerCloses ==
    /\ client.socket = "open"
    /\ ~client.eof
    /\ \E k \in 0..Len(client.wire) :
          client' = [client EXCEPT !.eof = TRUE, !.wire = SubSeq(@, 1, k)]
    /\ UNCHANGED <<runtimeVars, reader, retry>>

\* connect (lines 79-97): a new socket when there is none; the receive
\* buffer is left as it is
Connected(c) ==
    IF c.socket # "None" THEN c
    ELSE [c EXCEPT !.socket = "open", !.wire = <<>>, !.eof = FALSE,
                   !.sent = <<>>, !.kinds = {}, !.frames = <<>>,
                   !.old = Len(c.receive_buffer)]

Connect ==
    /\ client.socket = "None"
    /\ client.waiting = 0
    /\ client' = Connected(client)
    /\ UNCHANGED <<runtimeVars, reader, retry>>

\* close (lines 296-301): the socket is closed and forgotten; the receive
\* buffer is left as it is
Close ==
    /\ client.socket = "open"
    /\ client.waiting = 0
    /\ client' = [client EXCEPT !.socket = "None", !.wire = <<>>, !.eof = FALSE]
    /\ UNCHANGED <<runtimeVars, reader, retry>>

\* execute_http up to the first recv (lines 112-181, 203): connect when
\* there is no socket, take the next request id, send the request
Execute ==
    /\ client.waiting = 0
    /\ client.request_id_seq < MaxCalls
    /\ client' = [Connected(client) EXCEPT
                     !.request_id_seq = @ + 1,
                     !.waiting = client.request_id_seq + 1,
                     !.result = Raise("none", 0)]
    /\ UNCHANGED <<runtimeVars, reader, retry>>

\* the call ends: it returns the response or raises
Ended(c, outcome) ==
    IF outcome.kind = "more" THEN c
    ELSE [c EXCEPT !.waiting = 0, !.result = outcome]

AtEofFlush(c) ==
    Ended([c EXCEPT !.frames = Append(@, c.receive_buffer),
                    !.receive_buffer = <<>>],
          process_frame(c.receive_buffer))

\* lines 216-217: recv gave no byte
AtEof(c) == Ended(c, Raise("ConnectionError", 0))

\* one turn of _wait_for_response (lines 213-244): recv gives up to
\* RECV_SIZE bytes, which are appended to the buffer, and the inner loop
\* takes the complete frames out; or recv gives no byte because the runtime
\* has closed, and ConnectionError is raised
Recv ==
    /\ client.waiting # 0
    /\ \/ \E n \in 1..RECV_SIZE :
            /\ n <= Len(client.wire)
            /\ LET data == SubSeq(client.wire, 1, n)
                   p == ProcessFrames(client.receive_buffer \o data, <<>>,
                                      client.waiting)
                   used == Len(client.receive_buffer) + n - Len(p.buffer)
               IN client' = Ended([client EXCEPT
                                     !.wire = SubSeq(@, n + 1, Len(@)),
                                     !.receive_buffer = p.buffer,
                                     !.frames = @ \o p.taken,
                                     !.old = Max(0, @ - used)],
                                  p.outcome)
       \/ /\ client.wire = <<>>
          /\ client.eof
          /\ client' = AtEof(client)
    /\ UNCHANGED <<runtimeVars, reader, retry>>

\* lines 205-211: the call's time is up
TimesOut ==
    /\ client.waiting # 0
    /\ client' = Ended(client, Raise("Timeout", client.waiting))
    /\ UNCHANGED <<runtimeVars, reader, retry>>

NextCodec ==
    \/ \E f \in PeerFrames : PeerSends(f[1], f[2])
    \/ PeerCloses
    \/ Connect
    \/ Execute
    \/ Recv
    \/ TimesOut

SpecCodec == Init /\ [][NextCodec]_vars

NextClient ==
    \/ NextCodec
    \/ Close

SpecClient == Init /\ [][NextClient]_vars

\* ------------------------------------------------------------ the accept loop's read
\* What may arrive on stdin: up to two frames in the layout the accept loop
\* reads (the record's length, least significant byte first, then the
\* record), the records from none to MAX_PAYLOAD_SIZE + 1 bytes long, the
\* stream ending anywhere
InboundRecords == {[i \in 1..n |-> 1] : n \in 0..(MAX_PAYLOAD_SIZE + 1)}

InboundStreams ==
    LET whole == {runtime_frame(a) \o runtime_frame(b) :
                    a \in InboundRecords, b \in InboundRecords}
    IN UNION {{SubSeq(w, 1, k) : k \in 0..Len(w)} : w \in whole}

InitAccept ==
    /\ Started
    /\ client = ClientInit
    /\ reader \in {ReaderInit(stream) : stream \in InboundStreams}
    /\ retry = RetryInit(0, 0, 0)

\* the bytes the read under way still lacks
Lacking(r) == (IF r.size < 0 THEN FRAME_LENGTH_SIZE ELSE r.size) - Len(r.buf)

\* readexactly takes in a byte that has arrived
ReadByte ==
    /\ reader.error = "none"
    /\ Lacking(reader) > 0
    /\ reader.stream # <<>>
    /\ reader' = [reader EXCEPT !.buf = Append(@, Head(reader.stream)),
                                !.stream = Tail(@)]
    /\ UNCHANGED <<runtimeVars, client, retry>>

\* line 267
Size(b) == UnpackLittle(b)

\* lines 266-267: readexactly(4) returns, the size is unpacked
HeaderRead ==
    /\ reader.error = "none"
    /\ reader.size < 0
    /\ Lacking(reader) = 0
    /\ reader' = [reader EXCEPT !.size = Size(reader.buf), !.buf = <<>>]
    /\ UNCHANGED <<runtimeVars, client, retry>>

\* lines 268-270: readexactly(size) returns, the frame goes to GetRootAs
\* and a worker is started
FrameRead ==
    /\ reader.error = "none"
    /\ reader.size >= 0
    /\ Lacking(reader) = 0
    /\ reader' = [reader EXCEPT !.frames = Append(@, reader.buf),
                                !.size = -1, !.buf = <<>>]
    /\ UNCHANGED <<runtimeVars, client, retry>>

\* readexactly raises IncompleteReadError when the stream ends short
StreamEnds ==
    /\ reader.error = "none"
    /\ Lacking(reader) > 0
    /\ reader.stream = <<>>
    /\ reader' = [reader EXCEPT !.error = "IncompleteReadError"]
    /\ UNCHANGED <<runtimeVars, client, retry>>

NextAccept ==
    \/ ReadByte
    \/ HeaderRead
    \/ FrameRead
    \/ StreamEnds

SpecAccept == InitAccept /\ [][NextAccept]_vars

\* ------------------------------------------------------------ retry_with_backoff
InitRetry ==
    /\ Started
    /\ client = ClientInit
    /\ reader = ReaderInit(<<>>)
    /\ \E m \in (-1)..MaxRetries, i \in 1..MaxBackoff, x \in 1..MaxBackoff,
          names \in {DEFAULT_RETRYABLE, {"TRANSIENT", "PERMANENT"}} :
          retry = [RetryInit(m, i, x) EXCEPT !.retryable_errors = names]

EligibleAll(r, error_class) == TRUE

\* line 180
Eligible(r, error_class) ==
    get_error_class_name(error_class) \in r.retryable_errors

\* line 193
NextBackoff(r) == Min(r.backoff_ms * 2, r.max_backoff_ms)

\* line 174: the loop has another turn
InRange(r) == r.calls < r.max_retries + 1

\* lines 175-176: func returns
FuncReturns ==
    /\ retry.state = "running"
    /\ InRange(retry)
    /\ retry' = [retry EXCEPT !.calls = @ + 1, !.last = "ok",
                              !.state = "returned"]
    /\ UNCHANGED <<runtimeVars, client, reader>>

\* lines 177-193: func raises a ConnectorException
FuncRaisesConnector(error_class) ==
    /\ retry.state = "running"
    /\ InRange(retry)
    /\ retry' =
         IF ~Eligible(retry, error_class) \/ retry.calls = retry.max_retries
         THEN [retry EXCEPT !.calls = @ + 1, !.last = get_error_class_name(error_class),
                            !.state = "raised",
                            !.error = get_error_class_name(error_class)]
         ELSE [retry EXCEPT !.calls = @ + 1, !.last = get_error_class_name(error_class),
                            !.pauses = Append(@, retry.backoff_ms),
                            !.backoff_ms = NextBackoff(retry)]
    /\ UNCHANGED <<runtimeVars, client, reader>>

\* lines 194-196: func raises another exception
FuncRaisesOther ==
    /\ retry.state = "running"
    /\ InRange(retry)
    /\ retry' = [retry EXCEPT !.calls = @ + 1, !.last = "Exception",
                              !.state = "raised", !.error = "Exception"]
    /\ UNCHANGED <<runtimeVars, client, reader>>

\* lines 198-201: the loop ends without a return or a raise
LoopEnds ==
    /\ retry.state = "running"
    /\ ~InRange(retry)
    /\ retry' = [retry EXCEPT !.state = "raised",
                              !.error = IF retry.last = "none"
                                        THEN "RuntimeError" ELSE retry.last]
    /\ UNCHANGED <<runtimeVars, client, reader>>

NextRetry ==
    \/ FuncReturns
    \/ \E error_class \in ErrorClasses : FuncRaisesConnector(error_class)
    \/ FuncRaisesOther
    \/ LoopEnds

SpecRetry == InitRetry /\ [][NextRetry]_vars

RECURSIVE Pow2(_)
Pow2(n) == IF n = 0 THEN 1 ELSE 2 * Pow2(n - 1)

\* C37: func is called at most max_retries + 1 times; the call returns
\* exactly when func has succeeded, with no further call; a
\* ConnectorException that is not retry-eligible and any other exception
\* is raised at once; a retry-eligible error of the last attempt is
\* raised, and of an earlier attempt is retried; is_retryable() holds
\* exactly for the classes whose names are in the default list.
C37_BoundedRetries ==
    /\ retry.calls <= Max(0, retry.max_retries + 1)
    /\ retry.state = "returned" <=> retry.last = "ok"
    /\ retry.last = "Exception" =>
          retry.state = "raised" /\ retry.error = "Exception"
    /\ retry.last \in {get_error_class_name(e) : e \in ErrorClasses} =>
          IF retry.last \notin retry.retryable_errors
             \/ retry.calls = retry.max_retries + 1
          THEN retry.state = "raised" /\ retry.error = retry.last
          ELSE retry.state = "running"
    /\ \A error_class \in ErrorClasses :
          is_retryable(error_class)
             <=> get_error_class_name(error_class) \in DEFAULT_RETRYABLE

C37_Witness ==
    /\ retry.state = "raised"
    /\ retry.max_retries >= 2
    /\ retry.calls = retry.max_retries + 1
    /\ retry.last = "TIMEOUT"
    /\ retry.retryable_errors = DEFAULT_RETRYABLE

\* C38: the k-th pause slept is min(initial_backoff_ms * 2^(k-1),
\* max_backoff_ms), and a pause is slept only between two attempts.
C38_BackoffSchedule ==
    /\ \A k \in 1..Len(retry.pauses) :
          retry.pauses[k] = Min(retry.initial_backoff_ms * Pow2(k - 1),
                                retry.max_backoff_ms)
    /\ retry.state # "running" => Len(retry.pauses) < Max(1, retry.calls)

\* C39: the latency window never holds more than WINDOW samples; the step
\* in which a request that passed the queue check is through with its
\* response write appends one sample at the end of the window, dropping the
\* oldest when the window was full, and no other step changes the window;
\* on an empty window the controller keeps the limit.
C39_WindowFifo ==
    [][/\ Len(recent_latencies') <= WINDOW
       /\ \A t \in Tasks :
            (pc[t] = "wdrain" /\ pc'[t] # "wdrain") =>
               \E x \in Latencies :
                  recent_latencies' =
                     IF Len(recent_latencies) = WINDOW
                     THEN Tail(recent_latencies) \o <<x>>
                     ELSE recent_latencies \o <<x>>
       /\ (\A t \in Tasks : ~(pc[t] = "wdrain" /\ pc'[t] # "wdrain")) =>
               recent_latencies' = recent_latencies
       /\ AdjustedLimit(MAX_INFLIGHT, <<>>) = MAX_INFLIGHT]_vars

\* C33: when the accept loop has read a length prefix above
\* MAX_PAYLOAD_SIZE, the read has failed and no byte of the declared
\* payload is taken in.
C33_OversizeRejected ==
    reader.size > MAX_PAYLOAD_SIZE =>
        /\ reader.error # "none"
        /\ reader.buf = <<>>

\* the bytes _send_frame produces for a sequence of frames
RECURSIVE Encoded(_)
Encoded(fs) ==
    IF fs = <<>> THEN <<>>
    ELSE send_frame(Head(Head(fs)), Tail(Head(fs))) \o Encoded(Tail(fs))

IsPrefix(a, b) == Len(a) <= Len(b) /\ a = SubSeq(b, 1, Len(a))

\* C31: as long as the runtime has sent only frames laid out by _send_frame
\* with a length within MAX_PAYLOAD_SIZE, the frame data the decoder has
\* taken out are the frames sent, type byte and payload, in the order sent,
\* and the bytes not yet taken out, in the buffer and under way, are the
\* encoding of the frames sent after those (all of it while the connection
\* stands, a leading part of it once the connection has ended): however
\* recv cuts the bytes into chunks, no frame is altered, reordered or
\* dropped, and no framing error is raised.
C31_RoundTrip ==
    client.kinds \subseteq {"sdk"} =>
        LET ahead == Encoded(SubSeq(client.sent, Len(client.frames) + 1,
                                    Len(client.sent)))
            held == client.receive_buffer \o client.wire
        IN /\ IsPrefix(client.frames, client.sent)
           /\ IsPrefix(held, ahead)
           /\ ~client.eof => held = ahead
           /\ client.result.kind \notin {"ValueError", "IndexError"}

C31_Witness ==
    /\ client.kinds = {"sdk"}
    /\ Len(client.frames) = MaxFrames
    /\ client.frames = client.sent
    /\ client.frames[1] # client.frames[2]
    /\ Len(client.frames[1]) # Len(client.frames[2])

\* C32: a response frame the runtime emits (build_response's layout) is
\* decoded by the SDK decoder into the record the runtime encoded: when the
\* runtime has sent only such frames, the frame data taken out are response
\* frames carrying the records sent, and no framing error is raised.
C32_OneLayout ==
    client.kinds = {"runtime"} =>
        /\ IsPrefix(client.frames, client.sent)
        /\ client.result.kind # "ValueError"

\* C34: once the decoder has raised the error of an oversized length
\* prefix, the connection is closed.
C34_ErrorIsFatal ==
    client.result.kind = "ValueError" => client.socket = "None"

\* C35: when recv reports the end of the stream while the call waits (no
\* byte under way, connection closed by the runtime) and the call ends for
\* another reason than its own timeout, it ends with ConnectionError, and
\* the bytes of the incomplete frame stay in the buffer: nothing is handed
\* to _process_frame.
C35_PartialFrameNotDecoded ==
    [][(/\ client.waiting # 0
        /\ client.wire = <<>>
        /\ client.eof
        /\ client'.waiting = 0
        /\ client'.result.kind # "Timeout")
       => (/\ client'.result.kind = "ConnectionError"
           /\ client'.frames = client.frames
           /\ client'.receive_buffer = client.receive_buffer)]_vars

C35_Witness ==
    /\ client.result.kind = "ConnectionError"
    /\ client.kinds = {"sdk"}
    /\ client.receive_buffer # <<>>
    /\ Len(client.frames) < Len(client.sent)
    /\ LET p == ProcessFrames(client.receive_buffer, <<>>, 0)
       IN p.taken = <<>> /\ p.outcome.kind = "more"

\* C36: a call is ended by a response frame, returned or raised as its
\* error, only if the frame carries the call's request id.
C36_CorrelatedById ==
    [][(/\ client.waiting # 0
        /\ client'.waiting = 0
        /\ client'.result.kind \in {"response", "ConnectorException"})
       => client'.result.request_id = client.waiting]_vars

\* C40: a frame is taken out of the receive buffer only when the buffer
\* holds no byte received on an earlier connection.
C40_NoLeftoverDecoded ==
    [][Len(client'.frames) > Len(client.frames) => client.old = 0]_vars

====
